---- MODULE Spec2Model ----
(***************************************************************************)
(* Model of livekit.agents.voice.extensions.transcription_filler_filter:   *)
(* the FillerFilter that wraps an AgentActivity's realtime transcription   *)
(* handler and drops filler-only transcripts while the agent is speaking.  *)
(*                                                                         *)
(* A Python str is modelled as a sequence of one-character strings, so     *)
(* that strip(), lower() and split() are computed character by character.  *)
(* An Optional value is a sequence of length 0 (None) or 1 (the value).    *)
(***************************************************************************)
EXTENDS Naturals, Sequences, FiniteSets

VARIABLES
    ignored_words,      \* self._ignored_words: list of str
    orig_handler_map,   \* self._orig_handler_map, per filter: Optional handler
    handler,            \* activity._on_input_audio_transcription_completed
    session,            \* activity._session: NoSession or its agent_state
    ev,                 \* Optional: the event of the latest handler invocation
    fault,              \* the fault the environment injected in that invocation
    forwarded,          \* events the original handler received in that invocation
    events,             \* names the session recorded through emit in that invocation
    raised,             \* whether that invocation raised to its caller
    built,              \* what the vocabulary was built from: None, the environment, a word list
    attach_op,          \* the latest attach or detach of Self, and what it found
    hpc,                \* position of a handler invocation that runs step by step
    wpend,              \* stores a running set_ignored_words has still to make
    allowed,            \* decisions under each complete vocabulary of the invocation
    arg,                \* input of the pure function being applied
    res,                \* its result
    pc                  \* whether the pure function has been applied

vars == <<ignored_words, orig_handler_map, handler, session, ev, fault,
          forwarded, events, raised, built, attach_op, hpc, wpend, allowed, arg, res, pc>>

(***************************************************************************)
(* Bounds of the model.                                                    *)
(***************************************************************************)
MaxWords == 2            \* entries of a word list given to the filter
MaxTranscriptLen == 3    \* characters of a generated transcript
MaxStrLen == 3           \* characters of a string given to _norm
MaxEnvLen == 4           \* characters of the environment variable's value
MaxChain == 3            \* wrappers stacked on the activity's own method

None == <<>>
Some(x) == <<x>>

(***************************************************************************)
(* Characters and the str methods the module uses.                         *)
(***************************************************************************)
Whitespace == {" ", "\t", "\n"}

\* the argument of str.strip(".,!?\"'()[]<>")
StripChars == {".", ",", "!", "?", "\"", "'", "(", ")", "[", "]", "<", ">"}

Uppers == <<"A", "B", "C", "D", "E", "F", "G", "H", "I", "J", "K", "L", "M",
            "N", "O", "P", "Q", "R", "S", "T", "U", "V", "W", "X", "Y", "Z">>
Lowers == <<"a", "b", "c", "d", "e", "f", "g", "h", "i", "j", "k", "l", "m",
            "n", "o", "p", "q", "r", "s", "t", "u", "v", "w", "x", "y", "z">>

LowerChar(c) ==
    IF \E i \in DOMAIN Uppers : Uppers[i] = c
    THEN Lowers[CHOOSE i \in DOMAIN Uppers : Uppers[i] = c]
    ELSE c

\* str.lower()
RECURSIVE lower(_)
lower(s) == IF s = <<>> THEN <<>> ELSE <<LowerChar(Head(s))>> \o lower(Tail(s))

RECURSIVE lstrip(_, _)
lstrip(s, chars) ==
    IF s = <<>> THEN <<>>
    ELSE IF Head(s) \in chars THEN lstrip(Tail(s), chars) ELSE s

RECURSIVE rstrip(_, _)
rstrip(s, chars) ==
    IF s = <<>> THEN <<>>
    ELSE IF s[Len(s)] \in chars THEN rstrip(SubSeq(s, 1, Len(s) - 1), chars) ELSE s

\* str.strip(chars); str.strip() is strip(s, Whitespace)
strip(s, chars) == rstrip(lstrip(s, chars), chars)

\* str.split(): the maximal runs of non-whitespace characters
RECURSIVE split(_)
split(s) ==
    LET t == lstrip(s, Whitespace)
        n == IF \E i \in 1..Len(t) : t[i] \in Whitespace
             THEN (CHOOSE i \in 1..Len(t) :
                      /\ t[i] \in Whitespace
                      /\ \A j \in 1..(i - 1) : t[j] \notin Whitespace) - 1
             ELSE Len(t)
    IN  IF t = <<>> THEN <<>>
        ELSE <<SubSeq(t, 1, n)>> \o split(SubSeq(t, n + 1, Len(t)))

\* str.split(","): the pieces between the commas, empty pieces kept
RECURSIVE split_comma(_)
split_comma(s) ==
    IF \E i \in 1..Len(s) : s[i] = ","
    THEN LET i == CHOOSE k \in 1..Len(s) :
                      /\ s[k] = ","
                      /\ \A j \in 1..(k - 1) : s[j] # ","
         IN  <<SubSeq(s, 1, i - 1)>> \o split_comma(SubSeq(s, i + 1, Len(s)))
    ELSE <<s>>

\* the lists of at most n elements of a set
RECURSIVE ListsUpTo(_, _)
ListsUpTo(S, n) ==
    IF n = 0 THEN {<<>>}
    ELSE LET shorter == ListsUpTo(S, n - 1)
         IN  shorter \cup {Append(l, x) : l \in shorter, x \in S}

\* the strings of at most n characters over an alphabet
StringsUpTo(alphabet, n) == ListsUpTo(alphabet, n)

Range(f) == {f[i] : i \in DOMAIN f}

(***************************************************************************)
(* FillerFilter: construction and vocabulary.                              *)
(***************************************************************************)

\* [w.strip().lower() for w in words if w]
RECURSIVE StripLowerTruthy(_)
StripLowerTruthy(words) ==
    IF words = <<>> THEN <<>>
    ELSE IF Head(words) = <<>> THEN StripLowerTruthy(Tail(words))
    ELSE <<lower(strip(Head(words), Whitespace))>> \o StripLowerTruthy(Tail(words))

\* FillerFilter(ignored_words): the value of self._ignored_words
FillerFilter_init(words_opt) ==
    StripLowerTruthy(IF words_opt = None THEN <<>> ELSE words_opt[1])

\* the literal of from_env, one line of the source per line
DefaultRaw ==
    <<"u", "h", ",", "u", "m", "m", ",", "h", "m", "m", ",", "e", "r", "r", ",", "a", "h", ",", "l", "i", "k", "e", ",", "y", "o", "u", " ", "k", "n", "o", "w", ",">>
    \o <<"m", "m", ",", "m", "h", "m", ",", "m", "m", "m", ",", ",", ",", ",">>
    \o <<"[", "n", "o", "i", "s", "e", "]", ",", "[", "b", "a", "c", "k", "g", "r", "o", "u", "n", "d", "]", ",", "[", "i", "n", "a", "u", "d", "i", "b", "l", "e", "]", ",">>
    \o <<"[", "l", "a", "u", "g", "h", "]", ",", "[", "c", "o", "u", "g", "h", "]", ",", "[", "b", "r", "e", "a", "t", "h", "]", ",">>
    \o <<"<", "n", "o", "i", "s", "e", ">", ",", "<", "s", "i", "l", "e", "n", "c", "e", ">", ",", "<", "b", "a", "c", "k", "g", "r", "o", "u", "n", "d", ">">>

\* [p.strip().lower() for p in raw.split(",") if p.strip()]
RECURSIVE StripLowerNonBlank(_)
StripLowerNonBlank(pieces) ==
    IF pieces = <<>> THEN <<>>
    ELSE IF strip(Head(pieces), Whitespace) = <<>> THEN StripLowerNonBlank(Tail(pieces))
    ELSE <<lower(strip(Head(pieces), Whitespace))>> \o StripLowerNonBlank(Tail(pieces))

\* from_env falling back to the defaults only when the variable is unset
from_env_UnsetOnly(env_opt) ==
    LET raw == IF env_opt = None THEN DefaultRaw ELSE env_opt[1]
    IN  FillerFilter_init(Some(StripLowerNonBlank(split_comma(raw))))

\* from_env: env_opt is the variable's value, None when it is unset
from_env(env_opt) ==
    LET got == IF env_opt = None THEN <<>> ELSE env_opt[1]
        raw == IF got = <<>> THEN DefaultRaw ELSE got
    IN  FillerFilter_init(Some(StripLowerNonBlank(split_comma(raw))))

\* set_ignored_words(words): the list bound to self._ignored_words
set_ignored_words(words) == StripLowerTruthy(words)

\* _norm of the wrapper: s.strip().lower().strip(".,!?\"'()[]<>")
norm(s) == strip(lower(strip(s, Whitespace)), StripChars)

(***************************************************************************)
(* The activity, its session and the events.                               *)
(***************************************************************************)
NoSession == "no_session"          \* activity._session is None
AgentStates == {"speaking", "listening"}

Filters == {1, 2}
Self == 1

\* A handler is the list of the filters whose wrappers enclose the activity's
\* own method, outermost first; <<>> is the activity's own method.
OwnHandler == <<>>

AgentFalseInterruption == "agent_false_interruption"

\* where the environment makes a statement of the wrapper raise
Faults == {"none",
           "transcript",     \* ev has no transcript attribute
           "agent_state",    \* reading _session.agent_state raises
           "strip",          \* transcript is no str: .strip() raises
           "norm",           \* an entry of _ignored_words is no str
           "emit_raises",    \* _session.emit raises
           "emit_missing"}   \* _session has no emit

\* the values each part of the state is unused at
FilterIdle ==
    /\ ignored_words = <<>>
    /\ orig_handler_map = [f \in Filters |-> None]
    /\ handler = OwnHandler
    /\ session = "listening"
    /\ built = "none"
    /\ attach_op = "none"

LogsClear ==
    /\ ev = None
    /\ fault = "none"
    /\ forwarded = <<>>
    /\ events = <<>>
    /\ raised = FALSE

ConcIdle ==
    /\ hpc = "idle"
    /\ wpend = <<>>
    /\ allowed = {}

PureIdle ==
    /\ arg = None
    /\ res = <<>>
    /\ pc = "start"

filterVars == <<ignored_words, orig_handler_map, handler, session, built, attach_op>>
logVars == <<ev, fault, forwarded, events, raised>>
concVars == <<hpc, wpend, allowed>>
pureVars == <<arg, res, pc>>

(***************************************************************************)
(* attach_to_activity, detach_from_activity.                               *)
(***************************************************************************)

\* attach_to_activity without its "already attached" return
attach_to_activity_NoGuard(f, h, m) ==
    [handler |-> <<f>> \o h, map |-> [m EXCEPT ![f] = Some(h)]]

\* attach_to_activity(activity) of filter f, on handler h and the filters' maps m:
\* the handler and the maps it leaves
attach_to_activity(f, h, m) ==
    IF m[f] # None
    THEN [handler |-> h, map |-> m]                 \* already attached
    ELSE [handler |-> <<f>> \o h,                   \* setattr(activity, ..., wrapper)
          map |-> [m EXCEPT ![f] = Some(h)]]        \* _orig_handler_map[activity] = orig

\* detach_from_activity(activity) of filter f
detach_from_activity(f, h, m) ==
    IF m[f] = None
    THEN [handler |-> h, map |-> m]                 \* pop(activity, None) is None
    ELSE [handler |-> m[f][1],                      \* setattr(activity, ..., orig)
          map |-> [m EXCEPT ![f] = None]]

(***************************************************************************)
(* The wrapper installed by attach_to_activity.                            *)
(***************************************************************************)

\* what one invocation of the wrapper does: the events it passes to orig, the
\* names the session records, and whether it raises to its caller
Forward(e) == [forwarded |-> <<e>>, events |-> <<>>, raised |-> FALSE]

\* a wrapper whose except clause raises again instead of falling through
OnError_Reraise(e) == [forwarded |-> <<>>, events |-> <<>>, raised |-> TRUE]

\* except Exception: logger.exception(...), then the fall through to orig(ev)
OnError(e) == Forward(e)

\* transcript_text = ev.transcript or ""
transcript_text(e) == IF e.transcript = None THEN <<>> ELSE e.transcript[1]

\* the whole transcript matched as one phrase, not token by token
tokens_WholeText(text) == <<strip(lower(strip(text, Whitespace)), StripChars)>>

\* The inner try falls back, on any exception of the import or of split_words,
\* to [t.lower().strip(...) for t in transcript_text.split()]; loaded from its
\* file, as the tests and the demo load it, the relative import always raises.
tokens(text) ==
    LET ts == split(text)
    IN  [i \in 1..Len(ts) |-> strip(lower(ts[i]), StripChars)]

\* the set of the stored entries, not normalized as the tokens are
ignored_set_Raw(words) == Range(words)

\* ignored_set = {_norm(w) for w in self._ignored_words}
ignored_set(words) == {norm(w) : w \in Range(words)}

\* any() in the place of all()
all_fillers_Any(toks, iset) == \E i \in 1..Len(toks) : toks[i] \in iset

\* tokens and all(tok in ignored_set for tok in tokens)
all_fillers(toks, iset) == toks # <<>> /\ \A i \in 1..Len(toks) : toks[i] \in iset

\* the try around _session.emit("agent_false_interruption"), then return
Suppress(flt) ==
    [forwarded |-> <<>>,
     events |-> IF flt \in {"emit_raises", "emit_missing"}
                THEN <<>> ELSE <<AgentFalseInterruption>>,
     raised |-> FALSE]

\* the condition without its agent_state == "speaking" operand
Gate_NoSpeakingCheck(e, flt, sess, words) ==
    IF flt = "transcript" THEN "error"
    ELSE IF sess = NoSession THEN "skip"
    ELSE IF flt = "agent_state" THEN "error"
    ELSE IF flt = "strip" THEN "error"
    ELSE IF strip(transcript_text(e), Whitespace) = <<>> THEN "skip"
    ELSE IF words = <<>> THEN "skip"
    ELSE "enter"

\* The condition of the wrapper's if, evaluated left to right; words is the
\* value of self._ignored_words its last operand reads.
\* "enter": the body runs; "skip": it does not; "error": a statement raised
Gate(e, flt, sess, words) ==
    IF flt = "transcript" THEN "error"
    ELSE IF sess = NoSession THEN "skip"
    ELSE IF flt = "agent_state" THEN "error"
    ELSE IF sess # "speaking" THEN "skip"
    ELSE IF flt = "strip" THEN "error"
    ELSE IF strip(transcript_text(e), Whitespace) = <<>> THEN "skip"
    ELSE IF words = <<>> THEN "skip"
    ELSE "enter"

\* the body with the emit outside a try of its own: a failing emit reaches the
\* outer except, which falls through to orig(ev)
Body_EmitUnguarded(e, flt, words) ==
    IF flt = "norm" THEN OnError(e)
    ELSE IF all_fillers(tokens(transcript_text(e)), ignored_set(words))
         THEN IF flt \in {"emit_raises", "emit_missing"} THEN OnError(e) ELSE Suppress(flt)
         ELSE Forward(e)

\* The body of the wrapper's if; words is the value of self._ignored_words
\* that the set comprehension reads.
Body(e, flt, words) ==
    IF flt = "norm" THEN OnError(e)
    ELSE IF all_fillers(tokens(transcript_text(e)), ignored_set(words))
         THEN Suppress(flt)
         ELSE Forward(e)

\* wrapper(ev) when both reads of self._ignored_words see the same list
wrapper(e, flt, sess, words) ==
    LET g == Gate(e, flt, sess, words)
    IN  IF g = "error" THEN OnError(e)
        ELSE IF g = "skip" THEN Forward(e)
        ELSE Body(e, flt, words)

(***************************************************************************)
(* The filter on one activity, one operation at a time.                    *)
(***************************************************************************)

\* raw vocabulary entries the operations are given
RawWords == {<<>>, <<"U">>, <<" ", "[", "u", "]", " ">>, <<"[", "]">>}
WordLists == ListsUpTo(RawWords, MaxWords)

TranscriptAlphabet == {"U", " ", "["}
SampleTranscripts ==
    { <<"u", "h">>,
      <<"u", "m", "m", " ", "s", "t", "o", "p">>,
      <<"[", "n", "o", "i", "s", "e", "]">>,
      <<"y", "o", "u", " ", "k", "n", "o", "w">>,
      <<"m", "m", " ", "s", "t", "o", "p">> }
Transcripts == StringsUpTo(TranscriptAlphabet, MaxTranscriptLen) \cup SampleTranscripts

\* is_final and item_id of an event
EventMeta == {<<TRUE, None>>, <<FALSE, Some("item_1")>>}
Events ==
    {[transcript |-> t, is_final |-> m[1], item_id |-> m[2]] :
        t \in {None} \cup {Some(x) : x \in Transcripts}, m \in EventMeta}

Init ==
    /\ \/ ignored_words = FillerFilter_init(None) /\ built = "none"
       \/ \E ws \in WordLists :
             ignored_words = FillerFilter_init(Some(ws)) /\ built = "words"
       \/ ignored_words = from_env(None) /\ built = "env"
    /\ orig_handler_map = [f \in Filters |-> None]
    /\ handler = OwnHandler
    /\ session \in {NoSession} \cup AgentStates
    /\ attach_op = "none"
    /\ LogsClear
    /\ ConcIdle
    /\ PureIdle

\* filter.set_ignored_words(words)
SetIgnoredWords(ws) ==
    /\ ev = None
    /\ ignored_words' = set_ignored_words(ws)
    /\ built' = "words"
    /\ UNCHANGED <<orig_handler_map, handler, session, attach_op, logVars,
                   concVars, pureVars>>

\* filter.attach_to_activity(activity)
Attach ==
    /\ ev = None
    /\ \E r \in {attach_to_activity(Self, handler, orig_handler_map)} :
           handler' = r.handler /\ orig_handler_map' = r.map
    /\ attach_op' = IF orig_handler_map[Self] = None THEN "attach" ELSE "attach_again"
    /\ UNCHANGED <<ignored_words, session, built, logVars, concVars, pureVars>>

\* filter.detach_from_activity(activity)
Detach ==
    /\ ev = None
    /\ \E r \in {detach_from_activity(Self, handler, orig_handler_map)} :
           handler' = r.handler /\ orig_handler_map' = r.map
    /\ attach_op' = IF orig_handler_map[Self] # None THEN "detach" ELSE "detach_unattached"
    /\ UNCHANGED <<ignored_words, session, built, logVars, concVars, pureVars>>

\* the host changes the agent state of the session
SetAgentState(st) ==
    /\ ev = None
    /\ session # NoSession
    /\ session # st
    /\ session' = st
    /\ UNCHANGED <<ignored_words, orig_handler_map, handler, built, attach_op,
                   logVars, concVars, pureVars>>

\* activity._on_input_audio_transcription_completed(e) while the filter's
\* wrapper is installed
Transcription(e, flt) ==
    /\ ev = None
    /\ handler = <<Self>>
    /\ \E r \in {wrapper(e, flt, session, ignored_words)} :
           /\ forwarded' = r.forwarded
           /\ events' = r.events
           /\ raised' = r.raised
    /\ ev' = Some(e)
    /\ fault' = flt
    /\ UNCHANGED <<filterVars, concVars, pureVars>>

\* the harness reads the logs of the invocation and clears them
ReadLogs ==
    /\ ev # None
    /\ ev' = None
    /\ fault' = "none"
    /\ forwarded' = <<>>
    /\ events' = <<>>
    /\ raised' = FALSE
    /\ UNCHANGED <<filterVars, concVars, pureVars>>

\* The guard every operation starts with is repeated in front of the
\* quantifiers, so that no input is enumerated where none is accepted.
Next ==
    \/ ev = None /\ \E ws \in WordLists : SetIgnoredWords(ws)
    \/ Attach
    \/ Detach
    \/ ev = None /\ \E st \in AgentStates : SetAgentState(st)
    \/ ev = None /\ handler = <<Self>> /\ \E e \in Events, flt \in Faults : Transcription(e, flt)
    \/ ReadLogs

Spec == Init /\ [][Next]_vars

(***************************************************************************)
(* The words of the claims, stated without the operators of the model.     *)
(***************************************************************************)

\* s without its longest prefix and suffix of characters of chars
Trim(s, chars) ==
    LET keep == {i \in 1..Len(s) : s[i] \notin chars}
    IN  IF keep = {} THEN <<>>
        ELSE SubSeq(s, CHOOSE i \in keep : \A j \in keep : i <= j,
                       CHOOSE i \in keep : \A j \in keep : i >= j)

Lowercased(s) == [i \in 1..Len(s) |-> LowerChar(s[i])]

\* the whitespace-separated tokens of a text, as a set
TokensOf(t) ==
    LET starts == {i \in 1..Len(t) :
                      t[i] \notin Whitespace /\ (i = 1 \/ t[i - 1] \in Whitespace)}
        ends == {j \in 1..Len(t) :
                      t[j] \notin Whitespace /\ (j = Len(t) \/ t[j + 1] \in Whitespace)}
    IN  {SubSeq(t, i, CHOOSE j \in ends : j >= i /\ \A k \in ends : k >= i => j <= k) :
            i \in starts}

NormalizedToken(t) == Trim(Lowercased(t), StripChars)
NormalizedEntry(w) == Trim(Lowercased(Trim(w, Whitespace)), StripChars)
NormalizedVocabulary == {NormalizedEntry(w) : w \in Range(ignored_words)}

\* the transcript of the event of the invocation; None reads as empty
Text == IF ev = None \/ ev[1].transcript = None THEN <<>> ELSE ev[1].transcript[1]
Invoked == ev # None
NormalizedTokens == {NormalizedToken(t) : t \in TokensOf(Text)}
AllFillers ==
    \E toks \in {NormalizedTokens} : toks # {} /\ toks \subseteq NormalizedVocabulary
SomeNonFiller ==
    \E toks \in {NormalizedTokens} : \E t \in toks : t \notin NormalizedVocabulary

ForwardedUnchanged == forwarded = <<ev[1]>> /\ events = <<>> /\ ~raised
Suppressed == forwarded = <<>> /\ events = <<AgentFalseInterruption>> /\ ~raised

\* C1: an event is forwarded, once and with no notification, when the agent is
\* not speaking (or there is no session), the vocabulary is empty, or the
\* transcript is empty or whitespace-only.
C1_ForwardWhenNothingToFilter ==
    (Invoked /\ (session # "speaking" \/ ignored_words = <<>> \/ TokensOf(Text) = {}))
        => ForwardedUnchanged

\* a filler-only transcript that reaches the filter while the agent listens
C1_Witness ==
    /\ Invoked /\ fault = "none" /\ session = "listening"
    /\ AllFillers /\ forwarded = <<ev[1]>>

\* C2: with a non-empty vocabulary and the agent speaking, a transcript with at
\* least one token whose normalized tokens are all in the normalized vocabulary
\* is suppressed: orig is not called and the notification is emitted once.
C2_SuppressFillerOnly ==
    (Invoked /\ fault = "none" /\ session = "speaking" /\ ignored_words # <<>>
        /\ AllFillers) => Suppressed

\* two tokens, one upper case and one of punctuation, both in the vocabulary
C2_Witness ==
    /\ Invoked /\ fault = "none" /\ session = "speaking"
    /\ Cardinality(TokensOf(Text)) = 2 /\ AllFillers
    /\ \E t \in TokensOf(Text) : NormalizedToken(t) # t
    /\ forwarded = <<>>

\* C3: a transcript with a normalized token outside the normalized vocabulary
\* is forwarded unchanged with no notification, also while the agent speaks.
C3_ForwardPartialMatch == (Invoked /\ SomeNonFiller) => ForwardedUnchanged

\* the agent speaks; one token is a filler and another is not
C3_Witness ==
    /\ Invoked /\ fault = "none" /\ session = "speaking"
    /\ SomeNonFiller
    /\ \E t \in TokensOf(Text) : NormalizedToken(t) \in NormalizedVocabulary
    /\ forwarded = <<ev[1]>>

\* C4: an error raised while the filter evaluates an event is not raised to the
\* caller; the event is forwarded to orig once and not suppressed.
C4_FailOpen ==
    (Invoked /\ fault \in {"transcript", "agent_state", "strip", "norm"})
        => ForwardedUnchanged

\* the error strikes while a filler-only transcript is being normalized
C4_Witness ==
    /\ Invoked /\ fault = "norm" /\ session = "speaking" /\ AllFillers
    /\ forwarded = <<ev[1]>>

\* the built-in default vocabulary, entry by entry
DefaultVocabulary ==
    << <<"u", "h">>,
       <<"u", "m", "m">>,
       <<"h", "m", "m">>,
       <<"e", "r", "r">>,
       <<"a", "h">>,
       <<"l", "i", "k", "e">>,
       <<"y", "o", "u", " ", "k", "n", "o", "w">>,
       <<"m", "m">>,
       <<"m", "h", "m">>,
       <<"m", "m", "m">>,
       <<"[", "n", "o", "i", "s", "e", "]">>,
       <<"[", "b", "a", "c", "k", "g", "r", "o", "u", "n", "d", "]">>,
       <<"[", "i", "n", "a", "u", "d", "i", "b", "l", "e", "]">>,
       <<"[", "l", "a", "u", "g", "h", "]">>,
       <<"[", "c", "o", "u", "g", "h", "]">>,
       <<"[", "b", "r", "e", "a", "t", "h", "]">>,
       <<"<", "n", "o", "i", "s", "e", ">">>,
       <<"<", "s", "i", "l", "e", "n", "c", "e", ">">>,
       <<"<", "b", "a", "c", "k", "g", "r", "o", "u", "n", "d", ">">> >>

\* C5: a filter constructed with None has the built-in default vocabulary, so
\* that the transcript "uh" is suppressed while the agent is speaking.
C5_NoneYieldsDefaults ==
    built = "none" =>
        /\ ignored_words = DefaultVocabulary
        /\ (Invoked /\ fault = "none" /\ session = "speaking" /\ Text = <<"u", "h">>)
              => Suppressed

\* C6: the stored vocabulary has no two entries equal after normalization and
\* no entry empty after normalization.
C6_NoDuplicateNoEmpty ==
    /\ \A i, j \in DOMAIN ignored_words :
          NormalizedEntry(ignored_words[i]) = NormalizedEntry(ignored_words[j]) => i = j
    /\ \A i \in DOMAIN ignored_words : NormalizedEntry(ignored_words[i]) # <<>>

\* C9: for one filter on one activity, a repeated attach leaves the handler
\* wrapped once and the recorded original unchanged, detach installs the
\* handler of before the first attach, and a detach while not attached
\* changes nothing.
C9_AttachDetach ==
    /\ attach_op \in {"attach", "attach_again"} =>
          handler = <<Self>> /\ orig_handler_map[Self] = Some(OwnHandler)
    /\ attach_op \in {"none", "detach", "detach_unattached"} =>
          handler = OwnHandler /\ orig_handler_map[Self] = None

\* a second attach with no detach in between, and then a transcript
C9_Witness == attach_op = "attach_again" /\ Invoked /\ handler = <<Self>>

\* C11: when an event qualifies for suppression and the emit of the
\* notification fails (emit raises, or the session has no emit), nothing is
\* raised to the caller and the event is still suppressed: orig is not called.
C11_EmitFailureStillSuppresses ==
    (Invoked /\ fault \in {"emit_raises", "emit_missing"} /\ session = "speaking"
        /\ ignored_words # <<>> /\ AllFillers)
        => forwarded = <<>> /\ events = <<>> /\ ~raised

\* a filler-only transcript while the agent speaks and the session's emit raises
C11_Witness ==
    /\ Invoked /\ fault = "emit_raises" /\ session = "speaking"
    /\ ignored_words # <<>> /\ AllFillers /\ forwarded = <<>>

YouKnow == <<"y", "o", "u", " ", "k", "n", "o", "w">>
HasInnerWhitespace(w) == \E i \in 1..Len(w) : w[i] \in Whitespace

AttachBy(f) ==
    /\ ev = None
    /\ orig_handler_map[f] # None \/ Len(handler) < MaxChain
    /\ \E r \in {attach_to_activity(f, handler, orig_handler_map)} :
           handler' = r.handler /\ orig_handler_map' = r.map
    /\ attach_op' = IF f # Self THEN attach_op
                    ELSE IF orig_handler_map[f] = None THEN "attach" ELSE "attach_again"
    /\ UNCHANGED <<ignored_words, session, built, logVars, concVars, pureVars>>

\* filter f calls detach_from_activity(activity)
DetachBy(f) ==
    /\ ev = None
    /\ \E r \in {detach_from_activity(f, handler, orig_handler_map)} :
           handler' = r.handler /\ orig_handler_map' = r.map
    /\ attach_op' = IF f # Self THEN attach_op
                    ELSE IF orig_handler_map[f] # None THEN "detach" ELSE "detach_unattached"
    /\ UNCHANGED <<ignored_words, session, built, logVars, concVars, pureVars>>

NextTwo ==
    \/ \E f \in Filters : AttachBy(f)
    \/ \E f \in Filters : DetachBy(f)

SpecTwo == Init /\ [][NextTwo]_vars

\* C13: once both filters have detached, in whatever order they attached and
\* detached, the activity's handler is the one installed before either
\* attached, and no filter's wrapper remains installed.
C13_BothDetachedRestoresOwn ==
    (\A f \in Filters : orig_handler_map[f] = None) => handler = OwnHandler

(***************************************************************************)
(* set_ignored_words running concurrently with one invocation of the       *)
(* wrapper: the two reads of self._ignored_words are separate steps.       *)
(***************************************************************************)
ConcRawWords == {<<"U">>, <<"[", "]">>}
ConcWordLists == ListsUpTo(ConcRawWords, MaxWords)
ConcEvents ==
    {[transcript |-> Some(t), is_final |-> TRUE, item_id |-> None] :
        t \in StringsUpTo(TranscriptAlphabet, MaxTranscriptLen)}

\* a list that is cleared and refilled in place, entry by entry
StoreSteps_InPlace(new) ==
    <<<<>>>> \o [k \in 1..Len(new) |-> SubSeq(new, 1, k)]

\* self._ignored_words = [...]: the values of the attribute that a reader can
\* see while the assignment runs, in order; the last is the new list
StoreSteps(new) == <<new>>

InitConc ==
    /\ \E ws \in ConcWordLists : ignored_words = FillerFilter_init(Some(ws))
    /\ built = "words"
    /\ orig_handler_map = [f \in Filters |-> IF f = Self THEN Some(OwnHandler) ELSE None]
    /\ handler = <<Self>>
    /\ attach_op = "attach"
    /\ session \in AgentStates
    /\ LogsClear
    /\ ConcIdle
    /\ PureIdle

\* the wrapper is entered and evaluates the condition of its if
H_Condition(e) ==
    /\ hpc = "idle"
    /\ ev' = Some(e)
    /\ allowed' = {wrapper(e, "none", session, ignored_words)}
    /\ \E g \in {Gate(e, "none", session, ignored_words)} :
          IF g = "enter"
          THEN hpc' = "entered" /\ UNCHANGED <<forwarded, events, raised>>
          ELSE /\ hpc' = "done"
               /\ \E r \in {IF g = "error" THEN OnError(e) ELSE Forward(e)} :
                     forwarded' = r.forwarded /\ events' = r.events /\ raised' = r.raised
    /\ UNCHANGED <<filterVars, fault, wpend, pureVars>>

\* the wrapper runs the body of its if
H_Body ==
    /\ hpc = "entered"
    /\ \E r \in {Body(ev[1], "none", ignored_words)} :
          forwarded' = r.forwarded /\ events' = r.events /\ raised' = r.raised
    /\ hpc' = "done"
    /\ UNCHANGED <<filterVars, ev, fault, wpend, allowed, pureVars>>

\* the wrapper has returned; the harness reads the logs and clears them
H_Return ==
    /\ hpc = "done"
    /\ hpc' = "idle"
    /\ allowed' = {}
    /\ ev' = None
    /\ forwarded' = <<>>
    /\ events' = <<>>
    /\ raised' = FALSE
    /\ UNCHANGED <<filterVars, fault, wpend, pureVars>>

\* set_ignored_words(ws) builds the new list
W_Build(ws) ==
    /\ wpend = <<>>
    /\ wpend' = StoreSteps(set_ignored_words(ws))
    /\ UNCHANGED <<filterVars, logVars, hpc, allowed, pureVars>>

\* set_ignored_words stores into self._ignored_words; once the new list is
\* complete, the decision under it is one the invocation in progress may take
W_Store ==
    /\ wpend # <<>>
    /\ ignored_words' = Head(wpend)
    /\ wpend' = Tail(wpend)
    /\ allowed' = IF Len(wpend) = 1 /\ hpc = "entered"
                  THEN allowed \cup {wrapper(ev[1], "none", session, Head(wpend))}
                  ELSE allowed
    /\ UNCHANGED <<orig_handler_map, handler, session, built, attach_op, logVars,
                   hpc, pureVars>>

NextConc ==
    \/ hpc = "idle" /\ \E e \in ConcEvents : H_Condition(e)
    \/ H_Body
    \/ H_Return
    \/ wpend = <<>> /\ \E ws \in ConcWordLists : W_Build(ws)
    \/ W_Store

SpecConc == InitConc /\ [][NextConc]_vars

\* C8: an invocation that runs while set_ignored_words runs decides as it would
\* under the complete old vocabulary or under the complete new one.
C8_NoPartialVocabulary ==
    hpc = "done" =>
        [forwarded |-> forwarded, events |-> events, raised |-> raised] \in allowed

\* the vocabulary was replaced between the two reads, and the old and the new
\* vocabulary decide differently
C8_Witness == hpc = "done" /\ Cardinality(allowed) = 2

(***************************************************************************)
(* from_env as a pure function of the environment variable.                *)
(***************************************************************************)
EnvAlphabet == {"u", "U", " ", ","}

InitEnv ==
    /\ arg \in {None} \cup {Some(x) : x \in StringsUpTo(EnvAlphabet, MaxEnvLen)}
    /\ res = <<>>
    /\ pc = "start"
    /\ FilterIdle
    /\ LogsClear
    /\ ConcIdle

\* FillerFilter.from_env() with the variable unset (arg = None) or set to arg[1]
ApplyFromEnv ==
    /\ pc = "start"
    /\ ignored_words' = from_env(arg)
    /\ built' = "env"
    /\ pc' = "built"
    /\ UNCHANGED <<orig_handler_map, handler, session, attach_op, logVars,
                   concVars, arg, res>>

NextEnv == ApplyFromEnv

SpecEnv == InitEnv /\ [][NextEnv]_vars

\* the positions that bound the comma-separated entries of a string
Cuts(raw) == {0, Len(raw) + 1} \cup {i \in 1..Len(raw) : raw[i] = ","}
Cut(raw, k) == CHOOSE c \in Cuts(raw) : Cardinality({d \in Cuts(raw) : d < c}) = k - 1
NonEmpty(x) == x # <<>>
EntriesOf(raw) ==
    SelectSeq([k \in 1..(Cardinality(Cuts(raw)) - 1) |->
                  Lowercased(Trim(SubSeq(raw, Cut(raw, k) + 1, Cut(raw, k + 1) - 1),
                                  Whitespace))],
              NonEmpty)

\* C10: from_env yields the default vocabulary when the variable is unset or
\* empty, and otherwise the comma-separated entries, trimmed and lowercased,
\* without those that are empty after trimming.
C10_FromEnv ==
    pc = "built" =>
        ignored_words = IF arg = None \/ arg = Some(<<>>)
                        THEN DefaultVocabulary
                        ELSE EntriesOf(arg[1])

\* a value with an upper-case entry, a padded entry and an empty entry
C10_Witness ==
    /\ pc = "built" /\ arg # None
    /\ Len(ignored_words) = 2
    /\ \E i, j, k \in DOMAIN arg[1] :
          arg[1][i] = "U" /\ arg[1][j] = " " /\ arg[1][k] = "," /\ k < Len(arg[1])

(***************************************************************************)
(* _norm as a pure function: idempotence.                                  *)
(***************************************************************************)
NormAlphabet == {"n", "N", " ", "[", "]"}

InitNorm ==
    /\ arg \in StringsUpTo(NormAlphabet, MaxStrLen)
    /\ res = <<>>
    /\ pc = "start"
    /\ FilterIdle
    /\ LogsClear
    /\ ConcIdle

ApplyNorm ==
    /\ pc = "start"
    /\ res' = norm(arg)
    /\ pc' = "normed"
    /\ UNCHANGED <<filterVars, logVars, concVars, arg>>

NextNorm == ApplyNorm

SpecNorm == InitNorm /\ [][NextNorm]_vars

\* C7: normalization is idempotent: norm(norm(s)) = norm(s) for every string s,
\* also for entries with whitespace just inside the punctuation.
C7_NormIdempotent == pc = "normed" => norm(res) = res

====
